---------------------------- MODULE Spec2Model ----------------------------
(***************************************************************************)
(* A model of fiftyone/core/stages.py: the view stages, their construction *)
(* checks, their MongoDB form (to_mongo), their validation against a       *)
(* collection's field schema, their serialized form, and the seeded /      *)
(* process-wide random source behind Shuffle and Take.                     *)
(***************************************************************************)
EXTENDS Integers, Sequences, FiniteSets, TLC

(***************************************************************************)
(* Bounds of the model.                                                    *)
(***************************************************************************)
\* states of the modelled random generator (random.Random)
RngMod == 4
\* largest integer handed to Limit / Skip / Take
MaxSize == 2
\* longest pipeline of stages that is compiled
MaxStages == 3
\* stages kept aside while further Shuffle / Take stages are constructed
MaxKept == 1
\* denominator of the per-sample value _rand: _rand = n / RandDen, 0 < n < RandDen
RandDen == 8

\* lower end of randint(1e7, 1e10)
RandLo == 10000000

(***************************************************************************)
(* Python values handed to the constructors and found in kwargs.           *)
(***************************************************************************)
None == [kind |-> "none"]
PyStr(s) == [kind |-> "str", items |-> <<s>>]
PyList(xs) == [kind |-> "list", items |-> xs]
PyInt(n) == [kind |-> "int", val |-> n]
PyBool(b) == [kind |-> "bool", val |-> b]
\* a dict: a MongoDB expression or query
PyDict(d) == [kind |-> "dict", body |-> d]
\* a fiftyone.core.expressions.ViewExpression that is not a ViewField
PyExpr(e) == [kind |-> "ViewExpression", name |-> e]
\* a fiftyone.core.expressions.ViewField (a ViewExpression naming a field)
PyField(f) == [kind |-> "ViewField", name |-> f]
\* any other object (neither str, list, dict nor ViewExpression)
PyOther == [kind |-> "other"]

\* etau.is_str(x)
is_str(x) == x.kind = "str"
\* isinstance(x, ViewExpression); ViewField is a subclass of ViewExpression
is_ViewExpression(x) == x.kind \in {"ViewExpression", "ViewField"}
\* isinstance(x, dict)
is_dict(x) == x.kind = "dict"
\* bool(x) of a str, list or None, as tested by "if field_names:"
truthy(x) ==
    CASE x.kind = "none" -> FALSE
      [] x.kind = "str" -> x.items[1] # ""
      [] x.kind = "list" -> x.items # <<>>
      [] OTHER -> TRUE

\* set(xs) of a list
Range(xs) == {xs[i] : i \in 1..Len(xs)}

\* ViewExpression.to_mongo(prefix=...): the expression compiled under a prefix
\* ("" stands for prefix=None)
expr_to_mongo(e, prefix) == [k |-> "expr", name |-> e.name, prefix |-> prefix]

\* default_sample_fields(): the default fields of every sample
default_sample_fields == <<"filepath", "tags", "metadata">>

(***************************************************************************)
(* bson.ObjectId(id): ids are 24 hex digit strings; anything else raises.  *)
(***************************************************************************)
ObjectIdTable == [s \in {"5f0a", "5f0b", "5f0c"} |->
                    CASE s = "5f0a" -> 1 [] s = "5f0b" -> 2 [] OTHER -> 3]
ObjectIdValid(s) == s \in DOMAIN ObjectIdTable
ObjectId(s) == ObjectIdTable[s]

(***************************************************************************)
(* The random source.  A generator is its state; a draw steps the state    *)
(* and derives the integer from the new state.                             *)
(***************************************************************************)
\* one step of the generator
RngStep(s) == (s + 1) % RngMod

\* random.Random().seed(seed): the state is a function of the seed alone
RngSeed(seed) == (3 * seed + 1) % RngMod

\* gen.randint(1e7, 1e10): the integer drawn and the state left behind
RngRandint(s) == [value |-> RandLo + RngStep(s), state |-> RngStep(s)]

\* _get_rng(seed) with the process-wide generator in state g: the generator
\* to draw from, and whether it is the process-wide one
_get_rng_falsy(seed, g) ==
    IF seed.kind = "none" \/ seed.val = 0
    THEN [state |-> g, global |-> TRUE]
    ELSE [state |-> RngSeed(seed.val), global |-> FALSE]

_get_rng(seed, g) ==
    IF seed.kind = "none"
    THEN [state |-> g, global |-> TRUE]
    ELSE [state |-> RngSeed(seed.val), global |-> FALSE]


(***************************************************************************)
(* Construction.  Every constructor yields [ok |-> TRUE, stage |-> ...] or *)
(* [ok |-> FALSE, error |-> ...] when __init__ raises.  A stage is a       *)
(* record of its class name and its attributes.                            *)
(***************************************************************************)
Built(stage) == [ok |-> TRUE, stage |-> stage]
Raised(error) == [ok |-> FALSE, error |-> error]

\* the list a str-or-iterable argument is turned into
as_list(x) == IF is_str(x) THEN <<x.items[1]>> ELSE x.items

\* Exclude.__init__ and Select.__init__: _validate_params calls to_mongo(),
\* whose ObjectId(id) raises on a malformed id
ids_init_first(cls, sample_ids) ==
    LET ids == as_list(sample_ids) IN
    IF ids # <<>> /\ ~ObjectIdValid(ids[1])
    THEN Raised("InvalidId")
    ELSE Built([cls |-> cls, _sample_ids |-> ids])

ids_init(cls, sample_ids) ==
    LET ids == as_list(sample_ids) IN
    IF \E i \in 1..Len(ids) : ~ObjectIdValid(ids[i])
    THEN Raised("InvalidId")
    ELSE Built([cls |-> cls, _sample_ids |-> ids])

Exclude(sample_ids) == ids_init("Exclude", sample_ids)

Select(sample_ids) == ids_init("Select", sample_ids)

\* ExcludeFields._validate_params
ExcludeFields_invalid_none(names) == {}

ExcludeFields_invalid(names) == Range(names) \cap Range(default_sample_fields)

ExcludeFields(field_names) ==
    LET names == as_list(field_names) IN
    IF ExcludeFields_invalid(names) # {}
    THEN Raised("ValueError")
    ELSE Built([cls |-> "ExcludeFields", _field_names |-> names])

Exists(field) == Built([cls |-> "Exists", _field |-> field])

\* FilterField._validate_params / Match._validate_params
filter_ok(filter) == is_ViewExpression(filter) \/ is_dict(filter)

\* FilterField.__init__, inherited by FilterClassifications / FilterDetections
filter_init(cls, field, filter) ==
    IF ~filter_ok(filter)
    THEN Raised("ValueError")
    ELSE Built([cls |-> cls, _field |-> field, _filter |-> filter])

FilterField(field, filter) == filter_init("FilterField", field, filter)

FilterClassifications(field, filter) ==
    filter_init("FilterClassifications", field, filter)

FilterDetections(field, filter) == filter_init("FilterDetections", field, filter)

Limit(limit) == Built([cls |-> "Limit", _limit |-> limit])

Match(filter) ==
    IF ~filter_ok(filter)
    THEN Raised("ValueError")
    ELSE Built([cls |-> "Match", _filter |-> filter])

MatchTag(tag) == Built([cls |-> "MatchTag", _tag |-> tag])

MatchTags(tags) == Built([cls |-> "MatchTags", _tags |-> tags.items])

Mongo(pipeline) == Built([cls |-> "Mongo", _pipeline |-> pipeline])

\* SelectFields.__init__: list(set(field_names) | set(default_fields)), whose
\* order is the set's iteration order, is kept as the set it lists; with no
\* (or empty) field_names the default fields alone
SelectFields_names_as_given(field_names) ==
    IF truthy(field_names)
    THEN Range(as_list(field_names))
    ELSE Range(default_sample_fields)

SelectFields_names(field_names) ==
    IF truthy(field_names)
    THEN Range(as_list(field_names)) \cup Range(default_sample_fields)
    ELSE Range(default_sample_fields)

SelectFields(field_names) ==
    Built([cls |-> "SelectFields", _field_names |-> SelectFields_names(field_names)])

Shuffle_seeds_global(seed, g) ==
    LET gen == _get_rng(seed, g)
        draw == RngRandint(gen.state)
    IN  [ok |-> TRUE,
         stage |-> [cls |-> "Shuffle", _seed |-> seed, _randint |-> draw.value],
         rng |-> draw.state]

\* Shuffle.__init__ with the process-wide generator in state g: the stage and
\* the state the process-wide generator is left in
Shuffle(seed, g) ==
    LET gen == _get_rng(seed, g)
        draw == RngRandint(gen.state)
    IN  [ok |-> TRUE,
         stage |-> [cls |-> "Shuffle", _seed |-> seed, _randint |-> draw.value],
         rng |-> IF gen.global THEN draw.state ELSE g]

SortBy(field_or_expr, reverse) ==
    Built([cls |-> "SortBy", _field_or_expr |-> field_or_expr, _reverse |-> reverse])

Skip(skip) == Built([cls |-> "Skip", _skip |-> skip])

Take_unseeded(size, seed, g) ==
    LET draw == RngRandint(g)
    IN  [ok |-> TRUE,
         stage |-> [cls |-> "Take", _seed |-> seed, _size |-> size,
                    _randint |-> draw.value],
         rng |-> draw.state]

\* Take.__init__
Take(size, seed, g) ==
    LET gen == _get_rng(seed, g)
        draw == RngRandint(gen.state)
    IN  [ok |-> TRUE,
         stage |-> [cls |-> "Take", _seed |-> seed, _size |-> size,
                    _randint |-> draw.value],
         rng |-> IF gen.global THEN draw.state ELSE g]


(***************************************************************************)
(* to_mongo(): the MongoDB aggregation pipeline of a stage, a sequence of  *)
(* operations [op |-> ..., ...].                                           *)
(***************************************************************************)
ASCENDING == 1
DESCENDING == -1

\* Match._get_mongo_filter
Match_get_mongo_filter(filter) ==
    IF is_ViewExpression(filter)
    THEN [k |-> "$expr", arg |-> expr_to_mongo(filter, "")]
    ELSE filter.body

\* Match.to_mongo, also of the Match stages that other stages build
Match_to_mongo(filter) == <<[op |-> "$match", q |-> Match_get_mongo_filter(filter)]>>

ObjectIds_first(ids) == IF ids = <<>> THEN <<>> ELSE <<ObjectId(ids[1])>>

\* [ObjectId(id) for id in self._sample_ids]
ObjectIds(ids) == [i \in 1..Len(ids) |-> ObjectId(ids[i])]

\* FilterField._get_mongo_filter
FilterField_get_mongo_filter(stage) ==
    IF is_ViewExpression(stage._filter)
    THEN expr_to_mongo(stage._filter, "$" \o stage._field.items[1])
    ELSE stage._filter.body

FilterListField_get_mongo_filter_field_prefix(stage) ==
    IF is_ViewExpression(stage._filter)
    THEN expr_to_mongo(stage._filter, "$" \o stage._field.items[1])
    ELSE stage._filter.body

\* _FilterListField._get_mongo_filter
FilterListField_get_mongo_filter(stage) ==
    IF is_ViewExpression(stage._filter)
    THEN expr_to_mongo(stage._filter, "$$this")
    ELSE stage._filter.body

\* FilterClassifications._filter_field / FilterDetections._filter_field
_filter_field(stage) ==
    IF stage.cls = "FilterClassifications"
    THEN stage._field.items[1] \o ".classifications"
    ELSE stage._field.items[1] \o ".detections"

\* ViewStage.get_filtered_list_fields, overridden by _FilterListField
get_filtered_list_fields(stage) ==
    IF stage.cls \in {"FilterClassifications", "FilterDetections"}
    THEN <<_filter_field(stage)>>
    ELSE <<>>

\* the _get_mongo_filter that the stage's class resolves to
_get_mongo_filter(stage) ==
    CASE stage.cls = "FilterField" -> FilterField_get_mongo_filter(stage)
      [] stage.cls \in {"FilterClassifications", "FilterDetections"} ->
            FilterListField_get_mongo_filter(stage)
      [] OTHER -> Match_get_mongo_filter(stage._filter)

\* SortBy._get_mongo_field_or_expr: a field name (str) or an expression (dict)
_get_mongo_field_or_expr(stage) ==
    LET x == stage._field_or_expr IN
    CASE x.kind = "ViewField" -> PyStr(x.name)
      [] x.kind = "ViewExpression" -> PyDict(expr_to_mongo(x, ""))
      [] OTHER -> x

\* the operations shared by Shuffle.to_mongo and Take.to_mongo
rand_set(key, randint) ==
    [op |-> "$set", field |-> key,
     value |-> [k |-> "$mod", num |-> randint, den |-> "$_rand"]]

Limit_to_mongo(stage) == <<[op |-> "$limit", n |-> stage._limit.val]>>

Take_to_mongo_always_sample(stage) ==
    << rand_set("_rand_take", stage._randint),
       [op |-> "$sort", by |-> "_rand_take", order |-> ASCENDING],
       [op |-> "$limit", n |-> stage._size.val],
       [op |-> "$unset", fields |-> <<"_rand_take">>] >>

Take_to_mongo(stage) ==
    IF stage._size.val <= 0
    THEN Match_to_mongo(PyDict([k |-> "$eq", field |-> "_id", val |-> None]))
    ELSE << rand_set("_rand_take", stage._randint),
            [op |-> "$sort", by |-> "_rand_take", order |-> ASCENDING],
            [op |-> "$limit", n |-> stage._size.val],
            [op |-> "$unset", fields |-> <<"_rand_take">>] >>

Shuffle_to_mongo(stage) ==
    << rand_set("_rand_shuffle", stage._randint),
       [op |-> "$sort", by |-> "_rand_shuffle", order |-> ASCENDING],
       [op |-> "$unset", fields |-> <<"_rand_shuffle">>] >>

SortBy_to_mongo(stage) ==
    LET order == IF stage._reverse.val THEN DESCENDING ELSE ASCENDING
        field_or_expr == _get_mongo_field_or_expr(stage)
    IN  IF ~is_dict(field_or_expr)
        THEN <<[op |-> "$sort", by |-> field_or_expr.items[1], order |-> order]>>
        ELSE << [op |-> "$addFields", field |-> "_sort_field",
                 value |-> field_or_expr.body],
                [op |-> "$sort", by |-> "_sort_field", order |-> order],
                [op |-> "$unset", fields |-> <<"_sort_field">>] >>

to_mongo(stage) ==
    CASE stage.cls = "Exclude" ->
            Match_to_mongo(PyDict([k |-> "$not $in", field |-> "_id",
                                   vals |-> ObjectIds(stage._sample_ids)]))
      [] stage.cls = "ExcludeFields" ->
            <<[op |-> "$unset", fields |-> stage._field_names]>>
      [] stage.cls = "Exists" ->
            Match_to_mongo(PyDict([k |-> "$exists $ne", field |-> stage._field.items[1],
                                   val |-> None]))
      [] stage.cls = "FilterField" ->
            <<[op |-> "$addFields", field |-> stage._field.items[1],
               value |-> [k |-> "$cond", if |-> _get_mongo_filter(stage),
                          then |-> "$" \o stage._field.items[1], else |-> None]]>>
      [] stage.cls \in {"FilterClassifications", "FilterDetections"} ->
            <<[op |-> "$addFields", field |-> _filter_field(stage),
               value |-> [k |-> "$filter", input |-> "$" \o _filter_field(stage),
                          cond |-> _get_mongo_filter(stage)]]>>
      [] stage.cls = "Limit" -> Limit_to_mongo(stage)
      [] stage.cls = "Match" -> Match_to_mongo(stage._filter)
      [] stage.cls = "MatchTag" ->
            Match_to_mongo(PyDict([k |-> "$eq", field |-> "tags", val |-> stage._tag]))
      [] stage.cls = "MatchTags" ->
            Match_to_mongo(PyDict([k |-> "$in", field |-> "tags", tags |-> stage._tags]))
      [] stage.cls = "Mongo" -> stage._pipeline.items
      [] stage.cls = "Select" ->
            Match_to_mongo(PyDict([k |-> "$in", field |-> "_id",
                                   vals |-> ObjectIds(stage._sample_ids)]))
      [] stage.cls = "SelectFields" ->
            <<[op |-> "$project", keys |-> stage._field_names]>>
      [] stage.cls = "Shuffle" -> Shuffle_to_mongo(stage)
      [] stage.cls = "SortBy" -> SortBy_to_mongo(stage)
      [] stage.cls = "Skip" -> <<[op |-> "$skip", n |-> stage._skip.val]>>
      [] stage.cls = "Take" -> Take_to_mongo(stage)


(***************************************************************************)
(* _kwargs(), _serialize() and _from_dict().                               *)
(***************************************************************************)
\* list(s) of a set: its elements in some order
RECURSIVE SetToSeq(_)
SetToSeq(S) ==
    IF S = {} THEN <<>>
    ELSE LET x == CHOOSE y \in S : TRUE IN <<x>> \o SetToSeq(S \ {x})

Shuffle_kwargs(stage) == << <<"seed", stage._seed>> >>

_kwargs(stage) ==
    CASE stage.cls \in {"Exclude", "Select"} ->
            << <<"sample_ids", PyList(stage._sample_ids)>> >>
      [] stage.cls = "ExcludeFields" ->
            << <<"field_names", PyList(stage._field_names)>> >>
      [] stage.cls = "Exists" -> << <<"field", stage._field>> >>
      [] stage.cls \in {"FilterField", "FilterClassifications", "FilterDetections"} ->
            << <<"field", stage._field>>,
               <<"filter", PyDict(_get_mongo_filter(stage))>> >>
      [] stage.cls = "Limit" -> << <<"limit", stage._limit>> >>
      [] stage.cls = "Match" ->
            << <<"filter", PyDict(_get_mongo_filter(stage))>> >>
      [] stage.cls = "MatchTag" -> << <<"tag", stage._tag>> >>
      [] stage.cls = "MatchTags" -> << <<"tags", PyList(stage._tags)>> >>
      [] stage.cls = "Mongo" -> << <<"pipeline", stage._pipeline>> >>
      [] stage.cls = "SelectFields" ->
            << <<"field_names", PyList(SetToSeq(stage._field_names))>> >>
      [] stage.cls = "Shuffle" -> Shuffle_kwargs(stage)
      [] stage.cls = "SortBy" ->
            << <<"field_or_expr", _get_mongo_field_or_expr(stage)>>,
               <<"reverse", stage._reverse>> >>
      [] stage.cls = "Skip" -> << <<"skip", stage._skip>> >>
      [] stage.cls = "Take" ->
            << <<"size", stage._size>>, <<"seed", stage._seed>> >>

\* etau.get_class_name(self) is the class; "kwargs" the [name, value] list
_serialize(stage) == [kwargs |-> _kwargs(stage), _cls |-> stage.cls]

\* {k: v for (k, v) in d["kwargs"]}
kwargs_dict(kwargs) ==
    [name \in {kwargs[i][1] : i \in 1..Len(kwargs)} |->
        kwargs[CHOOSE i \in 1..Len(kwargs) :
                  /\ kwargs[i][1] = name
                  /\ \A j \in (i + 1)..Len(kwargs) : kwargs[j][1] # name][2]]

\* a construction that does not touch the process-wide generator
NoDraw(built, g) ==
    IF built.ok
    THEN [ok |-> TRUE, stage |-> built.stage, rng |-> g]
    ELSE [ok |-> FALSE, error |-> built.error, rng |-> g]

\* view_stage_cls(**kw), with the process-wide generator in state g
construct(cls, kw, g) ==
    CASE cls = "Exclude" -> NoDraw(Exclude(kw.sample_ids), g)
      [] cls = "ExcludeFields" -> NoDraw(ExcludeFields(kw.field_names), g)
      [] cls = "Exists" -> NoDraw(Exists(kw.field), g)
      [] cls = "FilterField" -> NoDraw(FilterField(kw.field, kw.filter), g)
      [] cls = "FilterClassifications" ->
            NoDraw(FilterClassifications(kw.field, kw.filter), g)
      [] cls = "FilterDetections" -> NoDraw(FilterDetections(kw.field, kw.filter), g)
      [] cls = "Limit" -> NoDraw(Limit(kw.limit), g)
      [] cls = "Match" -> NoDraw(Match(kw.filter), g)
      [] cls = "MatchTag" -> NoDraw(MatchTag(kw.tag), g)
      [] cls = "MatchTags" -> NoDraw(MatchTags(kw.tags), g)
      [] cls = "Mongo" -> NoDraw(Mongo(kw.pipeline), g)
      [] cls = "Select" -> NoDraw(Select(kw.sample_ids), g)
      [] cls = "SelectFields" -> NoDraw(SelectFields(kw.field_names), g)
      [] cls = "Shuffle" -> Shuffle(kw.seed, g)
      [] cls = "SortBy" -> NoDraw(SortBy(kw.field_or_expr, kw.reverse), g)
      [] cls = "Skip" -> NoDraw(Skip(kw.skip), g)
      [] cls = "Take" -> Take(kw.size, kw.seed, g)

\* ViewStage._from_dict(d)
_from_dict(d, g) == construct(d._cls, kwargs_dict(d.kwargs), g)

(***************************************************************************)
(* validate(sample_collection).  A schema maps each field name of the      *)
(* collection to its field, [ftype |-> ..., document_type |-> ...].  The   *)
(* result is the set of outcomes the call can have: [ok |-> TRUE], or the  *)
(* exception raised.                                                       *)
(***************************************************************************)
Valid == [ok |-> TRUE]
Invalid(error, reason, field) ==
    [ok |-> FALSE, error |-> error, reason |-> reason, field |-> field]

\* _validate_fields_exist over a list of names: the first absent one raises
_validate_fields_exist(schema, fields) ==
    LET absent == {i \in 1..Len(fields) : fields[i] \notin DOMAIN schema} IN
    IF absent = {} THEN {Valid}
    ELSE LET i == CHOOSE a \in absent : \A b \in absent : a <= b
         IN  {Invalid("ViewStageError", "does not exist", fields[i])}

\* _validate_fields_exist over the list of a set, whose order is any
_validate_fields_exist_any(schema, fields) ==
    LET absent == fields \ DOMAIN schema IN
    IF absent = {} THEN {Valid}
    ELSE {Invalid("ViewStageError", "does not exist", f) : f \in absent}

_validate_field_type_any_document(schema, field_name, embedded_doc_type) ==
    IF field_name \notin DOMAIN schema
    THEN {Invalid("ViewStageError", "does not exist", field_name)}
    ELSE IF schema[field_name].ftype # "EmbeddedDocumentField"
    THEN {Invalid("ViewStageError", "must be an instance of", field_name)}
    ELSE {Valid}

\* _validate_field_type with embedded_doc_type given
_validate_field_type(schema, field_name, embedded_doc_type) ==
    IF field_name \notin DOMAIN schema
    THEN {Invalid("ViewStageError", "does not exist", field_name)}
    ELSE IF schema[field_name].ftype # "EmbeddedDocumentField"
            \/ schema[field_name].document_type # embedded_doc_type
    THEN {Invalid("ViewStageError", "must be an instance of", field_name)}
    ELSE {Valid}

validate(stage, schema) ==
    CASE stage.cls = "ExcludeFields" ->
            _validate_fields_exist(schema, stage._field_names)
      [] stage.cls = "SelectFields" ->
            _validate_fields_exist_any(schema, stage._field_names)
      [] stage.cls = "FilterField" ->
            IF stage._field.items[1] = "filepath"
            THEN {Invalid("ValueError", "required field", "filepath")}
            ELSE _validate_fields_exist(schema, stage._field.items)
      [] stage.cls = "FilterClassifications" ->
            _validate_field_type(schema, stage._field.items[1], "Classifications")
      [] stage.cls = "FilterDetections" ->
            _validate_field_type(schema, stage._field.items[1], "Detections")
      [] stage.cls = "SortBy" ->
            IF is_str(stage._field_or_expr)
            THEN _validate_fields_exist(schema, stage._field_or_expr.items)
            ELSE {Valid}
      [] OTHER -> {Valid}


(***************************************************************************)
(* The pipeline compiler of the view: validate each stage in order, abort  *)
(* on the first failure, otherwise append the stage's operations.  The     *)
(* result is the set of outcomes the call can have; each outcome lists the *)
(* (0-based) indexes of the stages it validated and compiled.              *)
(***************************************************************************)
RECURSIVE compile_from(_, _, _, _)
compile_from(pipeline, schema, i, acc) ==
    IF i > Len(pipeline)
    THEN {[ok |-> TRUE, ops |-> acc.ops,
           validated |-> acc.validated, compiled |-> acc.compiled]}
    ELSE UNION {
           IF r.ok
           THEN compile_from(pipeline, schema, i + 1,
                    [ops |-> acc.ops \o to_mongo(pipeline[i]),
                     validated |-> Append(acc.validated, i - 1),
                     compiled |-> Append(acc.compiled, i - 1)])
           ELSE {[ok |-> FALSE, error |-> "PipelineCompilationError",
                  index |-> i - 1, cause |-> r, ops |-> <<>>,
                  validated |-> Append(acc.validated, i - 1),
                  compiled |-> acc.compiled]}
           : r \in validate(pipeline[i], schema) }

compile_keep_going(pipeline, schema) ==
    LET bad == {i \in 1..Len(pipeline) :
                   \E r \in validate(pipeline[i], schema) : ~r.ok}
        all == [i \in 1..Len(pipeline) |-> i - 1]
    IN  IF bad = {}
        THEN compile_from(pipeline, schema, 1,
                 [ops |-> <<>>, validated |-> <<>>, compiled |-> <<>>])
        ELSE LET i == CHOOSE a \in bad : \A b \in bad : b <= a IN
             {[ok |-> FALSE, error |-> "PipelineCompilationError",
               index |-> i - 1, cause |-> r, ops |-> <<>>,
               validated |-> all, compiled |-> <<>>]
              : r \in {x \in validate(pipeline[i], schema) : ~x.ok}}

\* the stages' operations, each put before those accumulated so far
RECURSIVE prepended(_)
prepended(stages) ==
    IF stages = <<>> THEN <<>>
    ELSE prepended(Tail(stages)) \o to_mongo(Head(stages))

compile_prepend(pipeline, schema) ==
    { IF r.ok THEN [r EXCEPT !.ops = prepended(pipeline)] ELSE r :
        r \in compile_from(pipeline, schema, 1,
                  [ops |-> <<>>, validated |-> <<>>, compiled |-> <<>>]) }

compile(pipeline, schema) ==
    compile_from(pipeline, schema, 1,
        [ops |-> <<>>, validated |-> <<>>, compiled |-> <<>>])

(***************************************************************************)
(* The aggregation engine, for the operations whose effect on the samples  *)
(* the stages rely on.  A sample is a function from field names to values; *)
(* its _rand is the numerator n of n / RandDen.  An operation yields the   *)
(* set of outcomes it can have: [ok |-> TRUE, docs |-> ...], or a failure. *)
(***************************************************************************)
Failed == [ok |-> FALSE, docs |-> <<>>]
Docs(ds) == [ok |-> TRUE, docs |-> ds]

Min(a, b) == IF a <= b THEN a ELSE b

\* whether a $match query of the forms the stages emit selects a document
Matches(q, d) ==
    CASE q.k = "$in" /\ q.field = "_id" -> d["_id"] \in Range(q.vals)
      [] q.k = "$not $in" -> d["_id"] \notin Range(q.vals)
      [] q.k = "$eq" /\ q.field = "_id" -> "_id" \notin DOMAIN d
      [] q.k = "$exists $ne" -> q.field \in DOMAIN d
      [] OTHER -> FALSE

\* the documents of ds that a $match query selects, in their order
RECURSIVE MatchDocs(_, _)
MatchDocs(q, ds) ==
    IF ds = <<>> THEN <<>>
    ELSE (IF Matches(q, Head(ds)) THEN <<Head(ds)>> ELSE <<>>) \o MatchDocs(q, Tail(ds))

\* the queries above
Evaluable(q) ==
    \/ q.k \in {"$in", "$eq"} /\ q.field = "_id"
    \/ q.k \in {"$not $in", "$exists $ne"}

\* the value a $sort orders a document by: a missing field sorts first
SortKey(d, by) == IF by \in DOMAIN d THEN d[by] ELSE -1

\* every order of ds that is sorted by the field, ties in any order
Sorted(ds, by, order) ==
    LET n == Len(ds)
        perms == {p \in [1..n -> 1..n] : \A i, j \in 1..n : p[i] = p[j] => i = j}
    IN  {[i \in 1..n |-> ds[p[i]]] : p \in
            {p \in perms : \A i \in 1..(n - 1) :
                order * SortKey(ds[p[i]], by) <= order * SortKey(ds[p[i + 1]], by)}}

\* {"$mod": [randint, "$_rand"]} of a document: randint mod (n / RandDen), as
\* the numerator over RandDen
ModRand(randint, d) == (randint * RandDen) % d["_rand"]

SetField(d, field, v) ==
    [f \in DOMAIN d \cup {field} |-> IF f = field THEN v ELSE d[f]]

Unset(d, fields) == [f \in DOMAIN d \ Range(fields) |-> d[f]]

Project(d, keys) == [f \in DOMAIN d \cap (keys \cup {"_id"}) |-> d[f]]

RunOp(op, ds) ==
    CASE op.op = "$match" -> {Docs(MatchDocs(op.q, ds))}
      [] op.op = "$limit" ->
            IF op.n <= 0 THEN {Failed}
            ELSE {Docs(SubSeq(ds, 1, Min(op.n, Len(ds))))}
      [] op.op = "$skip" ->
            IF op.n < 0 THEN {Failed}
            ELSE {Docs(SubSeq(ds, Min(op.n, Len(ds)) + 1, Len(ds)))}
      [] op.op = "$set" ->
            {Docs([i \in 1..Len(ds) |->
                    SetField(ds[i], op.field, ModRand(op.value.num, ds[i]))])}
      [] op.op = "$sort" -> {Docs(s) : s \in Sorted(ds, op.by, op.order)}
      [] op.op = "$unset" -> {Docs([i \in 1..Len(ds) |-> Unset(ds[i], op.fields)])}
      [] op.op = "$project" -> {Docs([i \in 1..Len(ds) |-> Project(ds[i], op.keys)])}

\* the operations above
Runnable(op) ==
    \/ op.op \in {"$limit", "$skip", "$sort", "$unset", "$project"}
    \/ op.op = "$match" /\ Evaluable(op.q)
    \/ op.op = "$set" /\ op.value.k = "$mod"

RECURSIVE RunFrom(_, _, _)
RunFrom(ops, i, ds) ==
    IF i > Len(ops) THEN {Docs(ds)}
    ELSE UNION {IF r.ok THEN RunFrom(ops, i + 1, r.docs) ELSE {r} : r \in RunOp(ops[i], ds)}

\* the outcomes of running a pipeline over the samples
Run(ops, ds) == RunFrom(ops, 1, ds)

(***************************************************************************)
(* The collections the stages are applied to.                              *)
(***************************************************************************)
Field(ftype, document_type) == [ftype |-> ftype, document_type |-> document_type]

DefaultSchema ==
    [f \in Range(default_sample_fields) |->
        CASE f = "filepath" -> Field("StringField", "")
          [] f = "tags" -> Field("ListField", "")
          [] OTHER -> Field("EmbeddedDocumentField", "Metadata")]

Sample(id, rand) == [f \in {"_id", "_rand", "filepath"} |->
                        CASE f = "_id" -> id [] f = "_rand" -> rand [] OTHER -> 100 + id]

\* a sample of a dataset whose own fields are named _rand_shuffle and _rand_take
Scored(d, v) == SetField(SetField(d, "_rand_shuffle", v), "_rand_take", v + 10)

Collections ==
    { [schema |-> [f \in {"preds", "gt", "uniq"} |->
                     CASE f = "preds" -> Field("EmbeddedDocumentField", "Detections")
                       [] f = "gt" -> Field("EmbeddedDocumentField", "Classifications")
                       [] OTHER -> Field("IntField", "")] @@ DefaultSchema,
       samples |-> <<Sample(1, 3), Sample(2, 5), Sample(3, 7)>>],
      [schema |-> [f \in {"preds", "gt"} |->
                     CASE f = "preds" -> Field("EmbeddedDocumentField", "Classifications")
                       [] OTHER -> Field("EmbeddedDocumentField", "Detections")]
                  @@ DefaultSchema,
       samples |-> <<Sample(2, 6)>>],
      [schema |-> DefaultSchema, samples |-> <<>>],
      [schema |-> [f \in {"_rand_shuffle", "_rand_take"} |-> Field("IntField", "")]
                  @@ DefaultSchema,
       samples |-> <<Scored(Sample(1, 7), 41), Scored(Sample(3, 3), 42)>>] }


(***************************************************************************)
(* The arguments the stages are constructed from.                          *)
(***************************************************************************)
IdInputs ==
    { PyStr("5f0a"), PyStr("zz"), PyList(<<>>), PyList(<<"5f0a", "5f0b">>),
      PyList(<<"5f0b", "zz">>), PyList(<<"5f0c">>) }

FieldNamesInputs ==
    { PyStr("preds"), PyStr("filepath"), PyList(<<>>), PyList(<<"preds", "gone">>),
      PyList(<<"gone", "lost">>), PyList(<<"lost", "gone">>),
      PyList(<<"uniq", "tags">>), PyList(<<"gt", "gt">>) }

FieldInputs == {PyStr(f) : f \in {"filepath", "preds", "uniq", "gone"}}

RawFilter == PyDict([k |-> "raw", name |-> "d1"])

FilterInputs == {PyExpr("e1"), RawFilter, PyOther}

IntInputs == {PyInt(n) : n \in -1..MaxSize}

SeedInputs == {None, PyInt(0), PyInt(1)}

TagsInputs == {PyList(<<>>), PyList(<<"t1", "t2">>)}

PipelineInputs ==
    { PyList(<<>>),
      PyList(<<[op |-> "$limit", n |-> 1], [op |-> "$match", q |-> RawFilter.body]>>) }

SortInputs == {PyStr("uniq"), PyStr("gone"), PyField("uniq"), PyExpr("e1"), RawFilter}

(***************************************************************************)
(* The state.                                                              *)
(***************************************************************************)
VARIABLES
    rng,          \* the state of the process-wide generator (module random)
    collection,   \* the sample collection: its field schema and its samples
    stage,        \* the stage constructed last
    given,        \* the arguments it was constructed from
    view,         \* the stages of the view, in order
    kept,         \* stages the caller holds on to
    last          \* the last call and its outcome

vars == <<rng, collection, stage, given, view, kept, last>>

NoStage == [cls |-> "none"]

Init ==
    /\ rng \in 0..(RngMod - 1)
    /\ collection \in Collections
    /\ stage = NoStage
    /\ given = <<>>
    /\ view = <<>>
    /\ kept = <<>>
    /\ last = [op |-> "init"]

\* a constructor call: the stage is bound when __init__ returns, and nothing
\* is when it raises
Construct(cls, args, res) ==
    /\ rng' = res.rng
    /\ last' = IF res.ok
               THEN [op |-> "construct", cls |-> cls, args |-> args, ok |-> TRUE]
               ELSE [op |-> "construct", cls |-> cls, args |-> args, ok |-> FALSE,
                     error |-> res.error]
    /\ stage' = IF res.ok THEN res.stage ELSE stage
    /\ given' = IF res.ok THEN args ELSE given
    /\ UNCHANGED <<collection, view, kept>>

NewExclude(ids) ==
    \E x \in ids : Construct("Exclude", <<x>>, NoDraw(Exclude(x), rng))

NewExcludeFields(names) ==
    \E x \in names : Construct("ExcludeFields", <<x>>, NoDraw(ExcludeFields(x), rng))

NewExists(fields) ==
    \E f \in fields : Construct("Exists", <<f>>, NoDraw(Exists(f), rng))

NewFilterField(fields, filters) ==
    \E f \in fields, x \in filters :
        Construct("FilterField", <<f, x>>, NoDraw(FilterField(f, x), rng))

NewFilterClassifications(fields, filters) ==
    \E f \in fields, x \in filters :
        Construct("FilterClassifications", <<f, x>>,
                  NoDraw(FilterClassifications(f, x), rng))

NewFilterDetections(fields, filters) ==
    \E f \in fields, x \in filters :
        Construct("FilterDetections", <<f, x>>, NoDraw(FilterDetections(f, x), rng))

NewLimit(limits) ==
    \E n \in limits : Construct("Limit", <<n>>, NoDraw(Limit(n), rng))

NewMatch(filters) ==
    \E x \in filters : Construct("Match", <<x>>, NoDraw(Match(x), rng))

NewMatchTag(tags) ==
    \E t \in tags : Construct("MatchTag", <<t>>, NoDraw(MatchTag(t), rng))

NewMatchTags(tags) ==
    \E t \in tags : Construct("MatchTags", <<t>>, NoDraw(MatchTags(t), rng))

NewMongo(pipelines) ==
    \E p \in pipelines : Construct("Mongo", <<p>>, NoDraw(Mongo(p), rng))

NewSelect(ids) ==
    \E x \in ids : Construct("Select", <<x>>, NoDraw(Select(x), rng))

NewSelectFields(names) ==
    \E x \in names : Construct("SelectFields", <<x>>, NoDraw(SelectFields(x), rng))

NewShuffle(seeds) ==
    \E seed \in seeds : Construct("Shuffle", <<seed>>, Shuffle(seed, rng))

NewSortBy(sorts) ==
    \E x \in sorts, r \in BOOLEAN :
        Construct("SortBy", <<x, PyBool(r)>>, NoDraw(SortBy(x, PyBool(r)), rng))

NewSkip(skips) ==
    \E n \in skips : Construct("Skip", <<n>>, NoDraw(Skip(n), rng))

NewTake(sizes, seeds) ==
    \E n \in sizes, seed \in seeds :
        Construct("Take", <<n, seed>>, Take(n, seed, rng))

ToMongo_redraw ==
    /\ stage # NoStage
    /\ LET unseeded == stage.cls \in {"Shuffle", "Take"} /\ stage._seed = None
           draw == RngRandint(rng)
           s == IF unseeded THEN [stage EXCEPT !._randint = draw.value] ELSE stage
       IN  /\ stage' = s
           /\ rng' = IF unseeded THEN draw.state ELSE rng
           /\ last' = [op |-> "to_mongo", ops |-> to_mongo(s)]
    /\ UNCHANGED <<collection, given, view, kept>>

\* stage.to_mongo()
ToMongo ==
    /\ stage # NoStage
    /\ last' = [op |-> "to_mongo", ops |-> to_mongo(stage)]
    /\ UNCHANGED <<rng, collection, stage, given, view, kept>>

\* stage.validate(collection)
Validate ==
    /\ stage # NoStage
    /\ \E r \in validate(stage, collection.schema) :
          last' = [op |-> "validate", result |-> r]
    /\ UNCHANGED <<rng, collection, stage, given, view, kept>>

\* stage._serialize()
Serialize ==
    /\ stage # NoStage
    /\ last' = [op |-> "serialize", d |-> _serialize(stage)]
    /\ UNCHANGED <<rng, collection, stage, given, view, kept>>

\* stage.get_filtered_list_fields()
GetFilteredListFields ==
    /\ stage # NoStage
    /\ last' = [op |-> "get_filtered_list_fields",
                fields |-> get_filtered_list_fields(stage)]
    /\ UNCHANGED <<rng, collection, stage, given, view, kept>>

\* ViewStage._from_dict(stage._serialize())
RoundTrip ==
    /\ stage # NoStage
    /\ LET res == _from_dict(_serialize(stage), rng) IN
          /\ rng' = res.rng
          /\ last' = IF res.ok
                     THEN [op |-> "round_trip", ok |-> TRUE, copy |-> res.stage]
                     ELSE [op |-> "round_trip", ok |-> FALSE, error |-> res.error]
    /\ UNCHANGED <<collection, stage, given, view, kept>>

\* the stage's pipeline run over the samples of the collection
Execute ==
    /\ stage # NoStage
    /\ \A i \in 1..Len(to_mongo(stage)) : Runnable(to_mongo(stage)[i])
    /\ \E r \in Run(to_mongo(stage), collection.samples) :
          last' = [op |-> "run", result |-> r]
    /\ UNCHANGED <<rng, collection, stage, given, view, kept>>

\* the caller appends the stage to the view
AddStage ==
    /\ stage # NoStage
    /\ Len(view) < MaxStages
    /\ view' = Append(view, stage)
    /\ last' = [op |-> "add_stage"]
    /\ UNCHANGED <<rng, collection, stage, given, kept>>

\* the view's stages compiled against the collection
Compile ==
    /\ \E r \in compile(view, collection.schema) :
          last' = [op |-> "compile", result |-> r]
    /\ UNCHANGED <<rng, collection, stage, given, view, kept>>

\* the caller holds on to the stage
Keep ==
    /\ stage # NoStage
    /\ Len(kept) < MaxKept
    /\ kept' = Append(kept, stage)
    /\ last' = [op |-> "keep"]
    /\ UNCHANGED <<rng, collection, stage, given, view>>

(***************************************************************************)
(* Spec: every stage of the registry constructed, compiled, validated,     *)
(* serialized and run on its own.                                          *)
(***************************************************************************)
Next ==
    \/ NewExclude(IdInputs)
    \/ NewExcludeFields(FieldNamesInputs)
    \/ NewExists(FieldInputs)
    \/ NewFilterField(FieldInputs, FilterInputs)
    \/ NewFilterClassifications(FieldInputs, FilterInputs)
    \/ NewFilterDetections(FieldInputs, FilterInputs)
    \/ NewLimit(IntInputs)
    \/ NewMatch(FilterInputs)
    \/ NewMatchTag({PyStr("t1")})
    \/ NewMatchTags(TagsInputs)
    \/ NewMongo(PipelineInputs)
    \/ NewSelect(IdInputs)
    \/ NewSelectFields(FieldNamesInputs \cup {None, PyStr("")})
    \/ NewShuffle(SeedInputs)
    \/ NewSortBy(SortInputs)
    \/ NewSkip(IntInputs)
    \/ NewTake(IntInputs, SeedInputs)
    \/ ToMongo
    \/ Validate
    \/ Serialize
    \/ GetFilteredListFields
    \/ RoundTrip
    \/ Execute

Spec == Init /\ [][Next]_vars

(***************************************************************************)
(* SpecPipeline: a view assembled from stages and compiled.                *)
(***************************************************************************)
NextPipeline ==
    \/ NewLimit({PyInt(1)})
    \/ NewFilterDetections({PyStr("preds")}, {RawFilter})
    \/ NewExcludeFields({PyList(<<"uniq">>)})
    \/ NewSelectFields({PyList(<<"gone", "lost">>)})
    \/ NewShuffle({PyInt(0)})
    \/ NewMongo({PyList(<<>>)})
    \/ AddStage
    \/ Compile

SpecPipeline == Init /\ [][NextPipeline]_vars

(***************************************************************************)
(* SpecRandom: Shuffle and Take stages constructed one after another,      *)
(* seeded and unseeded, some of them held on to.                           *)
(***************************************************************************)
NextRandom ==
    \/ NewShuffle(SeedInputs)
    \/ NewTake({PyInt(2)}, SeedInputs)
    \/ Keep
    \/ ToMongo

SpecRandom == Init /\ [][NextRandom]_vars


(***************************************************************************)
(* Properties.                                                             *)
(***************************************************************************)
\* the stage cannot be applied to a collection of this schema
Rejected(s, schema) == \A r \in validate(s, schema) : ~r.ok

\* the names a field_names argument asks for
Requested(x) ==
    CASE x.kind = "str" -> IF x.items[1] = "" THEN {} ELSE {x.items[1]}
      [] x.kind = "list" -> Range(x.items)
      [] OTHER -> {}

\* the operations of the stages, one stage after the other
RECURSIVE Concatenated(_)
Concatenated(stages) ==
    IF stages = <<>> THEN <<>>
    ELSE to_mongo(Head(stages)) \o Concatenated(Tail(stages))

\* C1: compiling a view fails fast and as a whole: when some stage does not
\* validate, the outcome is a PipelineCompilationError carrying the index of
\* the first such stage, no stage after it was validated or compiled, and no
\* operations are returned; operations are returned only if every stage
\* validated.
C1_CompileFailsFast ==
    last.op = "compile" =>
        LET r == last.result
            bad == {i \in 1..Len(view) : Rejected(view[i], collection.schema)}
        IN  IF bad = {} THEN r.ok
            ELSE LET first == CHOOSE a \in bad : \A b \in bad : a <= b IN
                 /\ ~r.ok
                 /\ r.error = "PipelineCompilationError"
                 /\ r.index = first - 1
                 /\ r.cause \in validate(view[first], collection.schema)
                 /\ r.ops = <<>>
                 /\ \A j \in Range(r.validated) : j <= first - 1
                 /\ \A j \in Range(r.compiled) : j < first - 1

\* a valid stage, an invalid one, a valid one: the error names index 1
C1_Witness ==
    /\ last.op = "compile"
    /\ Len(view) = 3
    /\ ~Rejected(view[1], collection.schema)
    /\ Rejected(view[2], collection.schema)
    /\ ~Rejected(view[3], collection.schema)
    /\ ~last.result.ok
    /\ last.result.index = 1

\* C2: when every stage of the view validates, the compiled operations are
\* the stages' own operations concatenated in the order of the stages; the
\* empty view compiles to no operations.
C2_CompileConcatenates ==
    last.op = "compile" =>
        /\ (\A i \in 1..Len(view) : ~Rejected(view[i], collection.schema)) =>
              /\ last.result.ok
              /\ last.result.ops = Concatenated(view)
        /\ view = <<>> => last.result.ok /\ last.result.ops = <<>>

\* a Shuffle (three operations) followed by a Limit (one), compiled
C2_Witness ==
    /\ last.op = "compile"
    /\ last.result.ok
    /\ Len(view) = 2
    /\ view[1].cls = "Shuffle"
    /\ view[2].cls = "Limit"
    /\ Len(last.result.ops) = 4
    /\ last.result.ops[4].op = "$limit"

\* C3: a stage rebuilt from its serialized form compiles to the operations of
\* the stage it was serialized from.
C3_RoundTripCompilesSame ==
    last.op = "round_trip" =>
        /\ last.ok
        /\ to_mongo(last.copy) = to_mongo(stage)

\* C4: two Shuffle stages with the same seed (not None), or two Take stages
\* with the same size and seed, have the same multiplier, the same operations
\* and the same results over the samples, whatever was constructed before or
\* between them.
C4_SeedReproducible ==
    \A a, b \in Range(kept) \cup {stage} :
        ( /\ a.cls \in {"Shuffle", "Take"}
          /\ b.cls = a.cls
          /\ a._seed # None
          /\ b._seed = a._seed
          /\ a.cls = "Take" => b._size = a._size ) =>
            /\ a._randint = b._randint
            /\ to_mongo(a) = to_mongo(b)
            /\ Run(to_mongo(a), collection.samples) = Run(to_mongo(b), collection.samples)

\* a Shuffle(seed=0) held on to, and a second Shuffle(seed=0) constructed
\* after it
C4_Witness ==
    /\ kept # <<>>
    /\ kept[1].cls = "Shuffle"
    /\ kept[1]._seed = PyInt(0)
    /\ last.op = "construct"
    /\ last.cls = "Shuffle"
    /\ stage._seed = PyInt(0)
    /\ Len(collection.samples) = 3

\* C5: ExcludeFields is constructed exactly when none of the requested names
\* is a default field, and then compiles to one $unset of exactly the
\* requested names, so of no default field.
C5_ExcludeFieldsGuardsDefaults ==
    last.op = "construct" /\ last.cls = "ExcludeFields" =>
        LET req == Requested(last.args[1]) IN
        /\ last.ok <=> req \cap Range(default_sample_fields) = {}
        /\ last.ok =>
              /\ Len(to_mongo(stage)) = 1
              /\ to_mongo(stage)[1].op = "$unset"
              /\ Range(to_mongo(stage)[1].fields) = req
              /\ Range(to_mongo(stage)[1].fields) \cap Range(default_sample_fields) = {}

\* ExcludeFields(["uniq", "tags"]) raised
C5_Witness ==
    /\ last.op = "construct"
    /\ last.cls = "ExcludeFields"
    /\ last.args = <<PyList(<<"uniq", "tags">>)>>
    /\ ~last.ok

\* C6: the projection SelectFields compiles to is the requested names together
\* with the default fields, and the default fields alone when no name (None,
\* an empty list or string) is given.
C6_SelectFieldsKeepsDefaults ==
    last.op = "construct" /\ last.cls = "SelectFields" =>
        /\ last.ok
        /\ Len(to_mongo(stage)) = 1
        /\ to_mongo(stage)[1].op = "$project"
        /\ to_mongo(stage)[1].keys =
              Requested(last.args[1]) \cup Range(default_sample_fields)
        /\ Range(default_sample_fields) \subseteq to_mongo(stage)[1].keys

\* SelectFields(["uniq", "tags"]): a new name and a default one
C6_Witness ==
    /\ last.op = "construct"
    /\ last.cls = "SelectFields"
    /\ last.args = <<PyList(<<"uniq", "tags">>)>>
    /\ to_mongo(stage)[1].keys = {"uniq", "filepath", "tags", "metadata"}

\* C7: Take(n, seed) run over k samples yields min(n, k) of them when n > 0;
\* when n <= 0 it yields none, whatever the seed, and its operations compute
\* and sort by no random key.
C7_TakeYieldsMin ==
    last.op = "run" /\ stage.cls = "Take" =>
        LET n == stage._size.val
            k == Len(collection.samples)
            r == last.result
        IN  /\ r.ok
            /\ n > 0 =>
                  /\ Len(r.docs) = (IF n <= k THEN n ELSE k)
                  /\ \A i \in 1..Len(r.docs) :
                        \E j \in 1..k : r.docs[i]["_id"] = collection.samples[j]["_id"]
                  /\ \A i, j \in 1..Len(r.docs) :
                        r.docs[i]["_id"] = r.docs[j]["_id"] => i = j
            /\ n <= 0 =>
                  /\ r.docs = <<>>
                  /\ \A i \in 1..Len(to_mongo(stage)) :
                        to_mongo(stage)[i].op \notin {"$set", "$sort", "$limit", "$unset"}

\* Take(2) without a seed, run over three samples
C7_Witness ==
    /\ last.op = "run"
    /\ stage.cls = "Take"
    /\ stage._size.val = 2
    /\ stage._seed = None
    /\ Len(collection.samples) = 3
    /\ Len(last.result.docs) = 2

\* C8: Limit(b) run over k > 0 samples yields none of them when b <= 0, and
\* the first min(b, k) of them in their order when b > 0.
C8_LimitCapsOrEmpties ==
    last.op = "run" /\ stage.cls = "Limit" =>
        LET b == stage._limit.val
            k == Len(collection.samples)
            r == last.result
        IN  /\ b <= 0 /\ k > 0 => r.ok /\ r.docs = <<>>
            /\ b > 0 =>
                  /\ r.ok
                  /\ r.docs = SubSeq(collection.samples, 1, IF b <= k THEN b ELSE k)

\* C9: FilterClassifications / FilterDetections validation: a field absent
\* from the schema raises "does not exist" naming it; a field present that is
\* not an embedded document field of the expected document type raises the
\* type error naming it; otherwise validation passes.
C9_ExistenceBeforeType ==
    last.op = "validate"
    /\ stage.cls \in {"FilterClassifications", "FilterDetections"} =>
        LET f == stage._field.items[1]
            schema == collection.schema
            expected == IF stage.cls = "FilterClassifications"
                        THEN "Classifications" ELSE "Detections"
        IN  IF f \notin DOMAIN schema
            THEN last.result = Invalid("ViewStageError", "does not exist", f)
            ELSE IF schema[f] = Field("EmbeddedDocumentField", expected)
            THEN last.result = Valid
            ELSE last.result = Invalid("ViewStageError", "must be an instance of", f)

\* FilterDetections("preds", ...) validated against a collection whose "preds"
\* is a Classifications field
C9_Witness ==
    /\ last.op = "validate"
    /\ stage.cls = "FilterDetections"
    /\ stage._field = PyStr("preds")
    /\ "preds" \in DOMAIN collection.schema
    /\ collection.schema["preds"] = Field("EmbeddedDocumentField", "Classifications")
    /\ last.result = Invalid("ViewStageError", "must be an instance of", "preds")

\* the fields a stage refers to by name, in the order of its parameters
Referenced(s, args) ==
    CASE s.cls \in {"ExcludeFields", "SelectFields"} ->
            IF truthy(args[1]) THEN as_list(args[1]) ELSE <<>>
      [] s.cls \in {"Exists", "FilterField", "FilterClassifications",
                    "FilterDetections"} -> <<s._field.items[1]>>
      [] s.cls = "SortBy" /\ is_str(s._field_or_expr) -> <<s._field_or_expr.items[1]>>
      [] OTHER -> <<>>

\* C10: validating a stage that refers to a field absent from the schema
\* raises "does not exist" naming the first absent field in the order of the
\* stage's parameters.
C10_AbsentFieldRejected ==
    last.op = "validate" =>
        LET fields == Referenced(stage, given)
            absent == {i \in 1..Len(fields) : fields[i] \notin DOMAIN collection.schema}
        IN  absent # {} =>
              last.result = Invalid("ViewStageError", "does not exist",
                                fields[CHOOSE a \in absent : \A b \in absent : a <= b])

\* C11: structural defects are rejected by the constructor: Exclude / Select
\* given a malformed id, alone or anywhere among the ids, raises, and so does
\* FilterField / FilterClassifications / FilterDetections / Match given a
\* filter that is neither a ViewExpression nor a dict; hence a stage of these
\* kinds that exists holds well-formed ids only, or a filter of one of the two
\* kinds, and its to_mongo() has nothing of that sort left to fail on
C11_StructuralDefectsRejectedAtConstruction ==
    /\ (/\ last.op = "construct"
        /\ last.cls \in {"Exclude", "Select"}
        /\ \E i \in 1..Len(as_list(last.args[1])) :
               ~ObjectIdValid(as_list(last.args[1])[i]))
           => (~last.ok /\ last.error = "InvalidId")
    /\ (/\ last.op = "construct"
        /\ last.cls \in {"FilterField", "FilterClassifications", "FilterDetections"}
        /\ ~is_ViewExpression(last.args[2])
        /\ ~is_dict(last.args[2]))
           => (~last.ok /\ last.error = "ValueError")
    /\ (/\ last.op = "construct"
        /\ last.cls = "Match"
        /\ ~is_ViewExpression(last.args[1])
        /\ ~is_dict(last.args[1]))
           => (~last.ok /\ last.error = "ValueError")
    /\ stage.cls \in {"Exclude", "Select"}
           => \A i \in 1..Len(stage._sample_ids) : ObjectIdValid(stage._sample_ids[i])
    /\ stage.cls \in {"FilterField", "FilterClassifications", "FilterDetections",
                      "Match"}
           => (is_ViewExpression(stage._filter) \/ is_dict(stage._filter))

\* Select(["5f0b", "zz"]), whose second id is malformed, raised
C11_Witness ==
    /\ last.op = "construct"
    /\ last.cls = "Select"
    /\ last.args = <<PyList(<<"5f0b", "zz">>)>>
    /\ ~last.ok

\* C12: Select(ids) run over the samples keeps exactly the samples whose id is
\* among ids, Exclude(ids) exactly those whose id is not, and the results of
\* the two over the same ids and samples are disjoint and together make up
\* the samples.
C12_SelectExcludePartition ==
    last.op = "run" /\ stage.cls \in {"Select", "Exclude"} =>
        LET ids == {ObjectId(stage._sample_ids[i]) : i \in 1..Len(stage._sample_ids)}
            all == Range(collection.samples)
            r == last.result
            other == IF stage.cls = "Select" THEN Exclude(given[1]) ELSE Select(given[1])
        IN  /\ r.ok
            /\ Len(r.docs) = Cardinality(Range(r.docs))
            /\ stage.cls = "Select" => Range(r.docs) = {d \in all : d["_id"] \in ids}
            /\ stage.cls = "Exclude" => Range(r.docs) = {d \in all : d["_id"] \notin ids}
            /\ other.ok
            /\ \A o \in Run(to_mongo(other.stage), collection.samples) :
                  /\ o.ok
                  /\ Range(r.docs) \cap Range(o.docs) = {}
                  /\ Range(r.docs) \cup Range(o.docs) = all

\* Select(["5f0a", "5f0b"]) run over three samples kept two of them
C12_Witness ==
    /\ last.op = "run"
    /\ stage.cls = "Select"
    /\ stage._sample_ids = <<"5f0a", "5f0b">>
    /\ Len(collection.samples) = 3
    /\ Len(last.result.docs) = 2

\* C13: a ViewExpression filter is compiled under the prefix "$<field>" by
\* FilterField and under "$$this" by FilterClassifications / FilterDetections,
\* where it is the cond of a $filter over "<field>.classifications" /
\* "<field>.detections"; a dict filter is emitted as it is by these stages and
\* by Match; _serialize() carries the same compiled filter as to_mongo().
C13_ScopePrefix ==
    LET field == stage._field.items[1]
        raw == stage._filter.body
        list_field == field \o (IF stage.cls = "FilterClassifications"
                                THEN ".classifications" ELSE ".detections")
        scoped == IF stage.cls = "FilterField"
                  THEN expr_to_mongo(stage._filter, "$" \o field)
                  ELSE expr_to_mongo(stage._filter, "$$this")
        expected == IF is_ViewExpression(stage._filter) THEN scoped ELSE raw
    IN  /\ last.op = "to_mongo" /\ stage.cls = "FilterField" =>
              /\ Len(last.ops) = 1
              /\ last.ops[1].field = field
              /\ last.ops[1].value.k = "$cond"
              /\ last.ops[1].value["if"] = expected
        /\ (/\ last.op = "to_mongo"
            /\ stage.cls \in {"FilterClassifications", "FilterDetections"}) =>
              /\ Len(last.ops) = 1
              /\ last.ops[1].field = list_field
              /\ last.ops[1].value.k = "$filter"
              /\ last.ops[1].value.input = "$" \o list_field
              /\ last.ops[1].value.cond = expected
        /\ (/\ last.op = "serialize"
            /\ stage.cls \in {"FilterField", "FilterClassifications",
                              "FilterDetections"}) =>
              /\ last.d.kwargs[2][1] = "filter"
              /\ last.d.kwargs[2][2] = PyDict(expected)
        /\ last.op = "to_mongo" /\ stage.cls = "Match" /\ is_dict(stage._filter) =>
              last.ops = <<[op |-> "$match", q |-> raw]>>
        /\ last.op = "serialize" /\ stage.cls = "Match" /\ is_dict(stage._filter) =>
              last.d.kwargs = << <<"filter", stage._filter>> >>

\* FilterDetections("preds", <expression>) serialized, its filter compiled
\* under "$$this"
C13_Witness ==
    /\ last.op = "serialize"
    /\ stage.cls = "FilterDetections"
    /\ stage._field = PyStr("preds")
    /\ is_ViewExpression(stage._filter)
    /\ last.d.kwargs[2][2].body.prefix = "$$this"

\* C14: a call of validate() (passing or raising), to_mongo(), _serialize()
\* or get_filtered_list_fields() leaves the stage, its _randint included, and
\* the collection with its schema as they were, and to_mongo() returns the
\* operations of the stage as it was before the call: those every earlier
\* to_mongo() of the same instance returned, also for Shuffle / Take without
\* a seed.
C14_StagesImmutable ==
    [][last'.op \in {"validate", "to_mongo", "serialize", "get_filtered_list_fields"}
          => /\ stage' = stage
             /\ collection' = collection
             /\ last'.op = "to_mongo" => last'.ops = to_mongo(stage)
             /\ (last'.op = "to_mongo" /\ last.op = "to_mongo")
                   => last'.ops = last.ops]_vars

\* Shuffle() without a seed, compiled
C14_Witness ==
    /\ last.op = "to_mongo"
    /\ stage.cls = "Shuffle"
    /\ stage._seed = None
    /\ last.ops[1].value.num = stage._randint

\* C15: Shuffle, or Take of a positive size, run over the samples of any
\* collection yields samples that carry every field they had, with its value,
\* and no field _rand_shuffle / _rand_take; its operations are $set of the
\* key, $sort ascending by the key, (Take) $limit to the size, $unset of the
\* key.
C15_TransientKeyDoesNotCollide ==
    (/\ last.op = "run"
     /\ stage.cls \in {"Shuffle", "Take"}
     /\ stage.cls = "Take" => stage._size.val > 0) =>
        LET key == IF stage.cls = "Shuffle" THEN "_rand_shuffle" ELSE "_rand_take"
            ops == to_mongo(stage)
            r == last.result
            n == Len(ops)
        IN  /\ r.ok
            /\ \A i \in 1..Len(r.docs) :
                  /\ \E j \in 1..Len(collection.samples) :
                        LET d == collection.samples[j] IN
                        /\ d["_id"] = r.docs[i]["_id"]
                        /\ \A f \in DOMAIN d :
                              f \in DOMAIN r.docs[i] /\ r.docs[i][f] = d[f]
                  /\ key \notin DOMAIN r.docs[i]
            /\ n = (IF stage.cls = "Take" THEN 4 ELSE 3)
            /\ ops[1].op = "$set" /\ ops[1].field = key
            /\ ops[2].op = "$sort" /\ ops[2].by = key /\ ops[2].order = ASCENDING
            /\ stage.cls = "Take" => ops[3].op = "$limit" /\ ops[3].n = stage._size.val
            /\ ops[n].op = "$unset" /\ ops[n].fields = <<key>>

\* C16: constructing Shuffle / Take with a seed leaves the process-wide
\* generator in the state it was in; constructing one without a seed takes
\* its _randint as the one next draw of the process-wide generator and
\* advances that generator by this draw.  The draws of the unseeded stages
\* are thus those of a run with the seeded constructions left out.
C16_SeededLeavesGlobalSource ==
    [][(last'.op = "construct" /\ last'.cls \in {"Shuffle", "Take"})
          => IF stage'._seed # None
             THEN rng' = rng
             ELSE /\ stage'._randint = RngRandint(rng).value
                  /\ rng' = RngRandint(rng).state
                  /\ rng' = RngStep(rng)]_vars

\* Take(2, seed=1) constructed while an unseeded Shuffle is held on to
C16_Witness ==
    /\ last.op = "construct"
    /\ last.cls = "Take"
    /\ stage._seed = PyInt(1)
    /\ Len(kept) = 1
    /\ kept[1].cls = "Shuffle"
    /\ kept[1]._seed = None

\* C17: Take(n, seed=s) with n > 0 and a seed, run over samples whose ordering
\* keys differ, yields the first min(n, k) samples, in their order, of what
\* Shuffle(seed=s) yields over the same samples; the two stages hold the same
\* _randint.
C17_TakeIsPrefixOfShuffle ==
    (/\ last.op = "run"
     /\ stage.cls = "Take"
     /\ stage._seed # None
     /\ stage._size.val > 0
     /\ \A i, j \in 1..Len(collection.samples) :
           ModRand(stage._randint, collection.samples[i])
               = ModRand(stage._randint, collection.samples[j]) => i = j) =>
        LET shuffle == Shuffle(stage._seed, rng).stage
            n == stage._size.val
            k == Len(collection.samples)
            taken == last.result
        IN  /\ shuffle._randint = stage._randint
            /\ taken.ok
            /\ \A shuffled \in Run(to_mongo(shuffle), collection.samples) :
                  /\ shuffled.ok
                  /\ Len(taken.docs) = Min(n, k)
                  /\ \A i \in 1..Len(taken.docs) :
                        taken.docs[i]["_id"] = shuffled.docs[i]["_id"]

\* Take(1, seed=0) run over two samples yielded the second of them
C17_Witness ==
    /\ last.op = "run"
    /\ stage.cls = "Take"
    /\ stage._seed = PyInt(0)
    /\ stage._size.val = 1
    /\ Len(collection.samples) = 2
    /\ Len(last.result.docs) = 1
    /\ last.result.docs[1]["_id"] = collection.samples[2]["_id"]

=============================================================================
